---- MODULE Spec2Model ----
(***************************************************************************)
(* Model of ode::ODESolver (cpp/ode_solver.hpp): fixed-step integration of *)
(* y'' = f(x, y, y') by Euler, RK4 and Adams-Bashforth-3 (bootstrapped by  *)
(* RK4), and the Runge error estimate.  Reals are exact rationals <<n,d>>  *)
(* in lowest terms with d > 0, so x = x0 + n*h holds exactly.              *)
(***************************************************************************)
EXTENDS Integers, Sequences, FiniteSets, TLC

(* ------------------------------ bounds --------------------------------- *)
\* x_end ranges over the half-integers -1, -1/2, ..., MaxXEnd
MaxXEnd == 3
\* x0 ranges over 0..MaxX0
MaxX0 == 1
\* lengths of the trajectories handed to calculateRungeError
MaxFineLen == 4
MaxCoarseLen == 3
\* a loop that never meets its stopping test (h <= 0) exhausts memory here
MaxLen == MaxXEnd + 2

(* --------------------------- exact rationals --------------------------- *)
Abs(n) == IF n < 0 THEN -n ELSE n

RECURSIVE GCD(_, _)
GCD(a, b) == IF b = 0 THEN a ELSE GCD(b, a % b)

Rat(n, d) ==
    LET g == GCD(Abs(n), Abs(d))
        s == IF d < 0 THEN -1 ELSE 1
    IN  <<s * (n \div g), s * (d \div g)>>

Zero == <<0, 1>>
FromInt(n) == <<n, 1>>
One == <<1, 1>>

\* the rationals as pairs; the operations are functions on them, so that an
\* operand is a value and not an expression
Q == Int \X Int

AddQ[a \in Q, b \in Q] ==
    LET g == GCD(a[2], b[2])
        l == (a[2] \div g) * b[2]
    IN  Rat(a[1] * (l \div a[2]) + b[1] * (l \div b[2]), l)

MulQ[a \in Q, b \in Q] ==
    LET g1 == GCD(Abs(a[1]), b[2])
        g2 == GCD(Abs(b[1]), a[2])
    IN  IF a[1] = 0 \/ b[1] = 0 THEN Zero
        ELSE <<(a[1] \div g1) * (b[1] \div g2), (a[2] \div g2) * (b[2] \div g1)>>

NegQ[a \in Q] == <<-a[1], a[2]>>
InvQ[b \in Q] == IF b[1] < 0 THEN <<-b[2], -b[1]>> ELSE <<b[2], b[1]>>
LessQ[a \in Q, b \in Q] == a[1] * b[2] < b[1] * a[2]
LeqQ[a \in Q, b \in Q] == a[1] * b[2] <= b[1] * a[2]
AbsQ[a \in Q] == <<Abs(a[1]), a[2]>>

Add(a, b) == AddQ[a, b]
Neg(a) == NegQ[a]
Sub(a, b) == AddQ[a, NegQ[b]]
Mul(a, b) == MulQ[a, b]
\* a / b for b # 0
Quot(a, b) == MulQ[a, InvQ[b]]
Less(a, b) == LessQ[a, b]
Leq(a, b) == LeqQ[a, b]
RatAbs(a) == AbsQ[a]

(* -------------------------------- State -------------------------------- *)
State(x, y, dy) == [x |-> x, y |-> y, dy |-> dy]

(* ------------------------- the user function f ------------------------- *)
\* A SecondOrderODE is a right-hand side together with the part of the x-axis
\* on which it is defined; outside it the call throws OdeError.
OdeError == "domain_error"

ODEs == [rhs : {"neg_y", "x_minus_dy"}, limit : {<<3, 2>>, <<100, 1>>}]

OdeDefined(ode, x) == Leq(x, ode.limit)

OdeValue(ode, x, y, dy) ==
    IF ode.rhs = "neg_y" THEN Neg(y) ELSE Sub(x, dy)

(* ---------------------------- system wrapper --------------------------- *)
\* the State is bound once, as the reference parameter is
system(ode, state) ==
    LET at(s) ==
            LET ok == OdeDefined(ode, s.x)
            IN  [ok  |-> ok,
                 dy  |-> s.dy,
                 d2y |-> IF ok THEN OdeValue(ode, s.x, s.y, s.dy) ELSE Zero]
    IN  CHOOSE r \in {at(s) : s \in {state}} : TRUE

(* ------------------------------ step functions ------------------------- *)
\* Each step yields [ok, state, evals]: whether every evaluation of f
\* succeeded, the next State when it did, and how many evaluations of f were
\* started (a throwing evaluation ends the step).
Half(hh) == Mul(hh, <<1, 2>>)
Sixth(hh) == Mul(hh, <<1, 6>>)

\* a step that advances x by half the step size
StepXHalf(x, hh) == Add(x, Half(hh))

\* current.x + h of the State returned by every step function
StepX(x, hh) == Add(x, hh)

Weighted(a, b, c, d) == Add(Add(a, Mul(FromInt(2), b)), Add(Mul(FromInt(2), c), d))

rk4Step(ode, cur, hh) ==
    LET k1 == system(ode, cur)
        k2_state == State(Add(cur.x, Half(hh)),
                          Add(cur.y, Mul(Half(hh), k1.dy)),
                          Add(cur.dy, Mul(Half(hh), k1.d2y)))
        k2 == system(ode, k2_state)
        k3_state == State(Add(cur.x, Half(hh)),
                          Add(cur.y, Mul(Half(hh), k2.dy)),
                          Add(cur.dy, Mul(Half(hh), k2.d2y)))
        k3 == system(ode, k3_state)
        k4_state == State(Add(cur.x, hh),
                          Add(cur.y, Mul(hh, k3.dy)),
                          Add(cur.dy, Mul(hh, k3.d2y)))
        k4 == system(ode, k4_state)
    IN  IF ~k1.ok THEN [ok |-> FALSE, state |-> cur, evals |-> 1]
        ELSE IF ~k2.ok THEN [ok |-> FALSE, state |-> cur, evals |-> 2]
        ELSE IF ~k3.ok THEN [ok |-> FALSE, state |-> cur, evals |-> 3]
        ELSE IF ~k4.ok THEN [ok |-> FALSE, state |-> cur, evals |-> 4]
        ELSE [ok |-> TRUE,
              state |-> State(
                  StepX(cur.x, hh),
                  Add(cur.y,
                      Mul(Sixth(hh), Weighted(k1.dy, k2.dy, k3.dy, k4.dy))),
                  Add(cur.dy,
                      Mul(Sixth(hh), Weighted(k1.d2y, k2.d2y, k3.d2y, k4.d2y)))),
              evals |-> 4]

eulerStep(ode, cur, hh) ==
    LET s == system(ode, cur)
    IN  IF ~s.ok THEN [ok |-> FALSE, state |-> cur, evals |-> 1]
        ELSE [ok |-> TRUE,
              state |-> State(StepX(cur.x, hh),
                              Add(cur.y, Mul(hh, s.dy)),
                              Add(cur.dy, Mul(hh, s.d2y))),
              evals |-> 1]

\* 23*f0 - 16*f1 + 5*f2
AdamsSum(f0, f1, f2) ==
    Add(Sub(Mul(FromInt(23), f0), Mul(FromInt(16), f1)), Mul(FromInt(5), f2))

adams3Step(ode, prev_states, hh) ==
    LET n == Len(prev_states)
        cur == prev_states[n]
        prev1 == prev_states[n - 1]
        prev2 == prev_states[n - 2]
        f0 == system(ode, cur)
        f1 == system(ode, prev1)
        f2 == system(ode, prev2)
    IN  IF ~f0.ok THEN [ok |-> FALSE, state |-> cur, evals |-> 1]
        ELSE IF ~f1.ok THEN [ok |-> FALSE, state |-> cur, evals |-> 2]
        ELSE IF ~f2.ok THEN [ok |-> FALSE, state |-> cur, evals |-> 3]
        ELSE [ok |-> TRUE,
              state |-> State(
                  StepX(cur.x, hh),
                  Add(cur.y,
                      Quot(Mul(hh, AdamsSum(f0.dy, f1.dy, f2.dy)), FromInt(12))),
                  Add(cur.dy,
                      Quot(Mul(hh, AdamsSum(f0.d2y, f1.d2y, f2.d2y)), FromInt(12)))),
              evals |-> 3]

(* ------------------------------ the solver ----------------------------- *)
VARIABLES
    m_ode,            \* the user function captured at construction
    m_initial_state,  \* (x0, y0, dy0)
    pc,               \* "idle", "boot", "loop", "returned", "threw"
    method,           \* the entry point of the call in progress
    h, x_end,         \* its arguments
    solution,         \* the local vector being built
    current,          \* the local of solveRK4 / solveEuler
    evals,            \* evaluations of f started during the call
    fFailures,        \* evaluations of f that threw during the call
    exception,        \* what the call threw
    result,           \* the trajectory handed to the caller
    ref,              \* an earlier outcome the caller kept
    fine, coarse, p,  \* arguments of calculateRungeError
    i, coarse_idx,    \* its loop variables
    errors,           \* its local vector / return value
    rpc,              \* "idle", "loop", "returned"
    oob               \* an element past the end of fine or coarse was read

solverVars == <<m_ode, m_initial_state, pc, method, h, x_end, solution,
                current, evals, fFailures, exception, result, ref>>
rungeVars == <<fine, coarse, p, i, coarse_idx, errors, rpc, oob>>
vars == <<m_ode, m_initial_state, pc, method, h, x_end, solution,
          current, evals, fFailures, exception, result, ref,
          fine, coarse, p, i, coarse_idx, errors, rpc, oob>>

Methods == {"Euler", "RK4", "Adams3"}
HValues == {FromInt(-1), Zero, FromInt(1), FromInt(2)}
XEndValues == {Rat(k, 2) : k \in -2 .. 2 * MaxXEnd}
InitialStates ==
    {State(FromInt(x0), y0, dy0) :
        x0 \in 0 .. MaxX0, y0 \in {FromInt(2)}, dy0 \in {FromInt(-2)}}

NoResult == <<>>
NoRef == [key |-> <<>>, pc |-> "idle", result |-> NoResult, exception |-> "none"]

\* loop tests that forget the half step, or stop one comparison late
KeepSteppingNoHalf(x, hh, xe) == Less(x, xe)
KeepSteppingInclusive(x, hh, xe) == Leq(x, Sub(xe, Half(hh)))

\* the loop test of all three solve functions
KeepStepping(x, hh, xe) == Less(x, Sub(xe, Half(hh)))

\* static_cast<size_t>((x_end - x0) / h) + 1 handed to reserve: the cast is
\* undefined when the quotient is infinite, NaN or <= -1, and reserve then
\* gets an arbitrary size: it may succeed, exceed max_size or exhaust memory.
ReserveOutcomes(x0, hh, xe) ==
    IF hh = Zero THEN {"ok", "length_error", "bad_alloc"}
    ELSE IF Leq(Quot(Sub(xe, x0), hh), FromInt(-1))
         THEN {"ok", "length_error", "bad_alloc"}
         ELSE {"ok"}

SolverIdleRunge ==
    /\ fine = <<>> /\ coarse = <<>> /\ p = 0 /\ i = 0 /\ coarse_idx = 0
    /\ errors = <<>> /\ rpc = "idle" /\ oob = FALSE

Init ==
    /\ m_ode \in ODEs
    /\ m_initial_state \in InitialStates
    /\ pc = "idle"
    /\ method = "RK4"
    /\ h = FromInt(1)
    /\ x_end = Zero
    /\ solution = <<>>
    /\ current = m_initial_state
    /\ evals = 0
    /\ fFailures = 0
    /\ exception = "none"
    /\ result = NoResult
    /\ ref = NoRef
    /\ SolverIdleRunge

\* an exception leaves the solve function: the local vector is destroyed
Throw(e) ==
    /\ pc' = "threw"
    /\ exception' = e
    /\ solution' = <<>>
    /\ result' = NoResult

\* lines 27-31, 42-46, 57-62: reserve, then push the initial state
Enter(m, hh, xe) ==
    /\ pc = "idle"
    /\ rpc = "idle"
    /\ method' = m
    /\ h' = hh
    /\ x_end' = xe
    /\ evals' = 0
    /\ fFailures' = 0
    /\ current' = m_initial_state
    /\ \E outcome \in ReserveOutcomes(m_initial_state.x, hh, xe) :
          IF outcome = "ok"
          THEN /\ solution' = <<m_initial_state>>
               /\ pc' = IF m = "Adams3" THEN "boot" ELSE "loop"
               /\ UNCHANGED <<exception, result>>
          ELSE Throw(outcome)
    /\ UNCHANGED <<m_ode, m_initial_state, ref>>
    /\ UNCHANGED rungeVars

\* a loop that swallows the failure of f and hands back what it has
AdvanceSwallow(r) ==
    /\ evals' = evals + r.evals
    /\ IF r.ok
       THEN /\ solution' = Append(solution, r.state)
            /\ fFailures' = fFailures
            /\ UNCHANGED <<pc, exception, result>>
       ELSE /\ fFailures' = fFailures + 1
            /\ pc' = "returned"
            /\ result' = solution
            /\ solution' = <<>>
            /\ UNCHANGED exception

\* one pass through a while loop: r is what the step function yielded
Advance(r) ==
    /\ evals' = evals + r.evals
    /\ IF r.ok
       THEN /\ solution' = Append(solution, r.state)
            /\ fFailures' = fFailures
            /\ UNCHANGED <<pc, exception, result>>
       ELSE /\ fFailures' = fFailures + 1
            /\ Throw(OdeError)

Return ==
    /\ pc' = "returned"
    /\ result' = solution
    /\ solution' = <<>>
    /\ UNCHANGED <<evals, fFailures, exception>>

\* push_back in a loop that cannot end: memory runs out
Exhaust ==
    /\ Throw("bad_alloc")
    /\ UNCHANGED <<evals, fFailures>>

\* solveRK4 whose local "current" is a reference to m_initial_state
solveRK4Aliased ==
    /\ pc = "loop"
    /\ method = "RK4"
    /\ IF KeepStepping(current.x, h, x_end)
       THEN IF Len(solution) >= MaxLen
            THEN Exhaust /\ UNCHANGED <<current, m_initial_state>>
            ELSE \E r \in {rk4Step(m_ode, current, h)} :
                     /\ Advance(r)
                     /\ current' = IF r.ok THEN r.state ELSE current
                     /\ m_initial_state' = current'
       ELSE Return /\ UNCHANGED <<current, m_initial_state>>
    /\ UNCHANGED <<m_ode, method, h, x_end, ref>>
    /\ UNCHANGED rungeVars

solveRK4 ==
    /\ pc = "loop"
    /\ method = "RK4"
    /\ IF KeepStepping(current.x, h, x_end)
       THEN IF Len(solution) >= MaxLen
            THEN Exhaust /\ UNCHANGED current
            ELSE \E r \in {rk4Step(m_ode, current, h)} :
                     /\ Advance(r)
                     /\ current' = IF r.ok THEN r.state ELSE current
       ELSE Return /\ UNCHANGED current
    /\ UNCHANGED <<m_ode, m_initial_state, method, h, x_end, ref>>
    /\ UNCHANGED rungeVars

solveEuler ==
    /\ pc = "loop"
    /\ method = "Euler"
    /\ IF KeepStepping(current.x, h, x_end)
       THEN IF Len(solution) >= MaxLen
            THEN Exhaust /\ UNCHANGED current
            ELSE \E r \in {eulerStep(m_ode, current, h)} :
                     /\ Advance(r)
                     /\ current' = IF r.ok THEN r.state ELSE current
       ELSE Return /\ UNCHANGED current
    /\ UNCHANGED <<m_ode, m_initial_state, method, h, x_end, ref>>
    /\ UNCHANGED rungeVars

\* a bootstrap that steps with Euler
BootstrapEuler(ode, cur, hh) == eulerStep(ode, cur, hh)

\* the step function of the for loop of solveAdams3
BootstrapStep(ode, cur, hh) == rk4Step(ode, cur, hh)

\* the for loop of solveAdams3, passes i = 1 and i = 2
solveAdams3Bootstrap ==
    /\ pc = "boot"
    /\ method = "Adams3"
    /\ \E r \in {BootstrapStep(m_ode, solution[Len(solution)], h)} :
           /\ evals' = evals + r.evals
           /\ IF r.ok
              THEN /\ solution' = Append(solution, r.state)
                   /\ pc' = IF Len(solution) + 1 < 3 THEN "boot" ELSE "loop"
                   /\ UNCHANGED <<fFailures, exception, result>>
              ELSE /\ fFailures' = fFailures + 1
                   /\ Throw(OdeError)
    /\ UNCHANGED <<m_ode, m_initial_state, method, h, x_end, current, ref>>
    /\ UNCHANGED rungeVars

solveAdams3 ==
    /\ pc = "loop"
    /\ method = "Adams3"
    /\ IF KeepStepping(solution[Len(solution)].x, h, x_end)
       THEN IF Len(solution) >= MaxLen
            THEN Exhaust
            ELSE \E r \in {adams3Step(m_ode, solution, h)} : Advance(r)
       ELSE Return
    /\ UNCHANGED <<m_ode, m_initial_state, method, h, x_end, current, ref>>
    /\ UNCHANGED rungeVars

Outcome == [key |-> <<method, h, x_end>>, pc |-> pc,
            result |-> result, exception |-> exception]

ValidConfig(x0, hh, xe) == Less(Zero, hh) /\ Less(x0, xe)

\* the caller takes the outcome (main, lines 27-30); it may keep the outcome
\* of a solveRK4 call to compare later ones with; the locals of the call are
\* gone
Receive(keep) ==
    /\ pc \in {"returned", "threw"}
    /\ keep => method = "RK4" /\ ValidConfig(m_initial_state.x, h, x_end)
    /\ pc' = "idle"
    /\ ref' = IF keep THEN Outcome ELSE ref
    /\ result' = NoResult
    /\ exception' = "none"
    /\ method' = "RK4"
    /\ h' = FromInt(1)
    /\ x_end' = Zero
    /\ solution' = <<>>
    /\ current' = m_initial_state
    /\ evals' = 0
    /\ fFailures' = 0
    /\ UNCHANGED <<m_ode, m_initial_state>>
    /\ UNCHANGED rungeVars

Calls ==
    \/ \E m \in Methods, hh \in HValues, xe \in XEndValues : Enter(m, hh, xe)
    \/ solveRK4
    \/ solveEuler
    \/ solveAdams3Bootstrap
    \/ solveAdams3

Next ==
    \/ Calls
    \/ \E keep \in BOOLEAN : Receive(keep)

Spec == Init /\ [][Next]_vars

(* ------------------------- calculateRungeError ------------------------- *)
\* IEEE results of a division by zero
PosInf == "inf"
NaN == "nan"

RECURSIVE Pow2(_)
Pow2(k) == IF k = 0 THEN 1 ELSE 2 * Pow2(k - 1)

\* std::pow(2.0, -p) for an integral p
Pow2Neg(pp) == IF pp >= 0 THEN <<1, Pow2(pp)>> ELSE <<Pow2(-pp), 1>>

\* std::abs(fy - cy) / (1 - std::pow(2.0, -p))
RungeValue(fy, cy, pp) ==
    LET num == RatAbs(Sub(fy, cy))
        den == Sub(One, Pow2Neg(pp))
    IN  IF den = Zero
        THEN IF num = Zero THEN NaN ELSE PosInf
        ELSE Quot(num, den)

\* operator[] with a 0-based index; past the end it reads foreign memory
Garbage == State(Zero, Zero, Zero)
InBounds(v, idx) == idx < Len(v)
At(v, idx) == IF InBounds(v, idx) THEN v[idx + 1] ELSE Garbage

\* a loop test without the break on an exhausted coarse
RungeContinueNoBreak(ii, ci, f, c) == ii < Len(f)

\* i < fine.size() and not (coarse_idx >= coarse.size())
RungeContinue(ii, ci, f, c) == ii < Len(f) /\ ~(ci >= Len(c))

\* an increment that visits every sample of fine
RungeIncrementOne(ii) == ii + 1

\* the increment of the for loop
RungeIncrement(ii) == ii + 2

YValues == {Zero, <<3, 2>>}
PValues == {-1, 0, 1, 2, 4}

RECURSIVE Trajectories(_)
Trajectories(n) ==
    IF n = 0 THEN {<<>>}
    ELSE LET shorter == Trajectories(n - 1)
         IN  shorter \cup
             {Append(t, State(FromInt(Len(t)), y, Zero)) :
                 t \in {u \in shorter : Len(u) = n - 1}, y \in YValues}

RungeIdleSolver ==
    /\ m_ode = [rhs |-> "neg_y", limit |-> <<100, 1>>]
    /\ m_initial_state = State(Zero, FromInt(2), FromInt(-2))
    /\ pc = "idle"
    /\ method = "RK4"
    /\ h = FromInt(1)
    /\ x_end = Zero
    /\ solution = <<>>
    /\ current = m_initial_state
    /\ evals = 0
    /\ fFailures = 0
    /\ exception = "none"
    /\ result = NoResult
    /\ ref = NoRef

\* calculateRungeError has been called with (fine, coarse, p)
InitRunge ==
    /\ RungeIdleSolver
    /\ fine \in Trajectories(MaxFineLen)
    /\ coarse \in Trajectories(MaxCoarseLen)
    /\ p \in PValues
    /\ errors = <<>>
    /\ coarse_idx = 0
    /\ i = 0
    /\ rpc = "loop"
    /\ oob = FALSE

\* one pass through the for loop, or leaving it
calculateRungeError ==
    /\ rpc = "loop"
    /\ IF RungeContinue(i, coarse_idx, fine, coarse)
       THEN /\ errors' = Append(errors,
                   RungeValue(At(fine, i).y, At(coarse, coarse_idx).y, p))
            /\ oob' = (oob \/ ~InBounds(fine, i) \/ ~InBounds(coarse, coarse_idx))
            /\ coarse_idx' = coarse_idx + 1
            /\ i' = RungeIncrement(i)
            /\ rpc' = "loop"
       ELSE /\ rpc' = "returned"
            /\ UNCHANGED <<errors, oob, coarse_idx, i>>
    /\ UNCHANGED <<fine, coarse, p>>
    /\ UNCHANGED solverVars

NextRunge == calculateRungeError

SpecRunge == InitRunge /\ [][NextRunge]_vars

(* --------------------------- fair execution ---------------------------- *)
\* a solve function, once entered, runs on: the program is single-threaded
\* and nothing suspends it
\* the caller keeps nothing
NextLive ==
    \/ Calls
    \/ Receive(FALSE)

LiveSpec ==
    /\ Init
    /\ [][NextLive]_vars
    /\ WF_vars(solveRK4)
    /\ WF_vars(solveEuler)
    /\ WF_vars(solveAdams3Bootstrap)
    /\ WF_vars(solveAdams3)

(* ------------------------------ properties ----------------------------- *)
CallValid == ValidConfig(m_initial_state.x, h, x_end)
Last(t) == t[Len(t)]
WithinHalfStep(x) ==
    /\ Leq(Sub(x_end, Half(h)), x)
    /\ Leq(x, Add(x_end, Half(h)))
Building == pc \in {"boot", "loop"}
IsPrefix(s, t) == Len(s) <= Len(t) /\ \A k \in 1 .. Len(s) : s[k] = t[k]
Max(a, b) == IF a >= b THEN a ELSE b
Min(a, b) == IF a <= b THEN a ELSE b

\* C1: a trajectory returned by solveRK4 or solveEuler for h > 0 and
\* x_end > x0 starts with the initial condition, and its last x lies in
\* [x_end - h/2, x_end + h/2].
C1_FirstAndLast ==
    (pc = "returned" /\ method \in {"RK4", "Euler"} /\ CallValid) =>
        /\ Len(result) >= 1
        /\ result[1] = m_initial_state
        /\ WithinHalfStep(Last(result).x)

C1_Witness ==
    /\ pc = "returned" /\ method = "RK4" /\ CallValid
    /\ Len(result) >= 3
    /\ Last(result).x # x_end

\* C2: a call with h <= 0 or x_end <= x0 ends with an invalid-argument error
\* before f is evaluated, and hands back no trajectory.
C2_InvalidRejected ==
    (pc # "idle" /\ ~CallValid) =>
        /\ pc = "threw"
        /\ exception = "invalid_argument"
        /\ evals = 0
        /\ result = NoResult

\* C3: for h > 0 the first three samples of a solveAdams3 trajectory are the
\* initial condition and the results of two successive RK4 steps from it,
\* while it is built and when it is returned.
C3_Bootstrap ==
    (method = "Adams3" /\ Less(Zero, h)) =>
        LET t == IF pc = "returned" THEN result ELSE solution
            s1 == rk4Step(m_ode, m_initial_state, h)
            s2 == rk4Step(m_ode, s1.state, h)
        IN  /\ Len(t) >= 1 => t[1] = m_initial_state
            /\ Len(t) >= 2 => s1.ok /\ t[2] = s1.state
            /\ Len(t) >= 3 => s2.ok /\ t[3] = s2.state
            /\ pc \in {"loop", "returned"} => Len(t) >= 3

C3_Witness ==
    /\ pc = "returned" /\ method = "Adams3" /\ Less(Zero, h)
    /\ Len(result) >= 4

\* C4: a trajectory returned by solveAdams3 for h > 0 and x_end > x0 has its
\* last x in [x_end - h/2, x_end + h/2].
C4_AdamsLast ==
    (pc = "returned" /\ method = "Adams3" /\ CallValid) =>
        WithinHalfStep(Last(result).x)

C5_Spacing ==
    Less(Zero, h) =>
        \A t \in {solution, result} : \A k \in 1 .. Len(t) - 1 :
            /\ t[k + 1].x = Add(t[k].x, h)
            /\ Less(t[k].x, t[k + 1].x)

C5_Append ==
    /\ (Building /\ Building') =>
          (solution' = solution \/
             (Len(solution') = Len(solution) + 1 /\ IsPrefix(solution, solution')))
    /\ (Building /\ pc' = "returned") => result' = solution

\* C5: for h > 0 consecutive samples of a trajectory, built or returned, are
\* exactly h apart in x and so strictly increasing; a step of the
\* construction appends one sample and changes none, and the trajectory
\* returned is the one built.
C5_AppendOnly == []C5_Spacing /\ [][C5_Append]_vars

C5_Witness ==
    /\ pc = "loop" /\ method = "Adams3" /\ Less(Zero, h)
    /\ Len(solution) >= 4

\* C6: calculateRungeError reads no element past the end of fine or coarse
\* and returns min(ceil(len(fine)/2), len(coarse)) values.
C6_Length ==
    /\ ~oob
    /\ rpc = "returned" =>
          Len(errors) = Min((Len(fine) + 1) \div 2, Len(coarse))

C6_Witness ==
    /\ rpc = "returned"
    /\ Len(fine) = 4 /\ Len(coarse) = 1
    /\ Len(errors) = 1

C7_SameOutcome ==
    (pc \in {"returned", "threw"} /\ ref.key = <<method, h, x_end>>) =>
        ref = Outcome

C7_SolverFixed == m_initial_state' = m_initial_state /\ m_ode' = m_ode

\* C7: a solveRK4 call with h > 0 and x_end > x0 has the same outcome as an
\* earlier solveRK4 call of the same solver with the same (h, x_end),
\* whatever calls came in between; no step changes the stored initial
\* condition or f.
C7_Idempotent == []C7_SameOutcome /\ [][C7_SolverFixed]_vars

C7_Witness ==
    /\ pc = "returned" /\ ref.key = <<method, h, x_end>>
    /\ Len(result) >= 3

C8_Failed ==
    /\ fFailures > 0 =>
          /\ pc = "threw"
          /\ exception = OdeError
          /\ result = NoResult
          /\ solution = <<>>
          /\ fFailures = 1
    /\ pc = "returned" =>
          /\ fFailures = 0
          /\ exception = "none"
          /\ ~KeepStepping(Last(result).x, h, x_end)

C8_Stops == fFailures > 0 => (pc' = "idle" /\ evals' = 0)

\* C8: once an evaluation of f has thrown, the call has thrown f's error, no
\* trajectory is handed back, no other evaluation of f fails after it and the
\* next thing to happen is the caller taking the error; a trajectory that is
\* returned is complete.
C8_Atomic == []C8_Failed /\ [][C8_Stops]_vars

C8_Witness ==
    /\ pc = "threw" /\ exception = OdeError /\ fFailures = 1
    /\ method = "Adams3" /\ evals > 4

Reached(n) ==
    Leq(Sub(x_end, Half(h)), Add(m_initial_state.x, Mul(FromInt(n), h)))

StepsNeeded ==
    CHOOSE n \in 0 .. MaxLen : Reached(n) /\ \A m \in 0 .. n - 1 : ~Reached(m)

C9_StepCount ==
    (pc = "returned" /\ CallValid) =>
        Len(result) - 1 =
            IF method = "Adams3" THEN Max(2, StepsNeeded) ELSE StepsNeeded

\* C9: for h > 0 and x_end > x0 a call ends; solveEuler and solveRK4 return
\* after exactly N steps, N the least n >= 0 with x0 + n*h >= x_end - h/2,
\* and solveAdams3 after max(2, N) steps.
C9_Terminates ==
    /\ []C9_StepCount
    /\ (Building /\ CallValid) ~> (pc \in {"returned", "threw"})

C9_Witness ==
    /\ pc = "returned" /\ method = "RK4" /\ CallValid
    /\ x_end = Add(m_initial_state.x, Half(h))
    /\ Len(result) = 1

C10_Values ==
    \A k \in 1 .. Len(errors) :
        /\ 2 * k - 1 <= Len(fine)
        /\ k <= Len(coarse)
        /\ LET d == RatAbs(Sub(fine[2 * k - 1].y, coarse[k].y))
               den == Sub(One, Pow2Neg(p))
           IN  /\ den = Zero =>
                     errors[k] = (IF d = Zero THEN NaN ELSE PosInf)
               /\ den # Zero =>
                     /\ errors[k] \in Int \X Nat
                     /\ Mul(errors[k], den) = d
               /\ p > 0 => Leq(Zero, errors[k])

C10_InputsKept == fine' = fine /\ coarse' = coarse

\* C10: the k-th value of calculateRungeError comes from fine[2k] and
\* coarse[k] (0-based) and is |fine[2k].y - coarse[k].y| / (1 - 2^-p), the
\* IEEE quotient when the divisor is zero; it is non-negative for p > 0;
\* fine and coarse do not change.
C10_Runge == []C10_Values /\ [][C10_InputsKept]_vars

C10_Witness ==
    /\ rpc = "returned" /\ p > 0
    /\ Len(errors) >= 2
    /\ errors[2] # Zero
    /\ fine[2].y # fine[3].y

====
